---- MODULE Spec2Model ----
(***************************************************************************)
(* State-machine model of SandoBot (bot/crates/strategy/src/bot/mod.rs):   *)
(* the strategy's one-time sync_state, and process_event with its two      *)
(* arms, process_new_block and the process_new_tx pipeline.  The pipeline  *)
(* is split at its two await points on external collaborators             *)
(* (fill_state_diffs, get_touched_sandwichable_pools); everything between  *)
(* two await points is one action.                                         *)
(*                                                                         *)
(* BlockManager, PoolManager and VictimInfo live in crate::managers and    *)
(* crate::types, outside the file at hand; their operations are modelled   *)
(* from the specification's sections 3, 4.2, 4.3 and 4.4.                  *)
(***************************************************************************)
EXTENDS Naturals, Sequences, FiniteSets

VARIABLES
    synced,         \* outcome of sync_state: "new", "ok" or "failed"
    sync_calls,     \* collaborator calls sync_state made, in order, each with
                    \* whether it succeeded
    pool_manager,   \* SandoBot.pool_manager: the set of registered pools
    block_manager,  \* SandoBot.block_manager: the tracked chain head
    halted,         \* TRUE once process_event has panicked
    pc,             \* where process_event stands: "idle" or the pending await
    cur,            \* the event being processed (or the last one processed)
    pre,            \* block_manager and pool_manager when cur was accepted
    victim_info,    \* the VictimInfo of the current transaction event
    touched_pools,  \* the Vec the pool lookup of the current event returned
    calls,          \* the stages the current event invoked, in order
    log,            \* the records the current event logged or printed
    ret,            \* what process_event returned for cur
    last_update     \* the block the head was last set from, whether setup or
                    \* a block event set it, and whether every block event
                    \* so far had a greater number than the head it met

vars == <<synced, sync_calls, pool_manager, block_manager, halted, pc, cur,
          pre, victim_info, touched_pools, calls, log, ret, last_update>>

---------------------------------------------------------------------------
(* Bounds of the model. *)

MaxBlock == 3
MaxStamp == 2
MaxFee == 1
MaxHash == 1
NumPools == 2

---------------------------------------------------------------------------
(* Data. *)

Pools == 1..NumPools

\* cfmms::pool::Pool is a closed enum of two variants; which variant a pool
\* is, is an on-chain fact fixed per address.
Variant(p) == IF p % 2 = 1 THEN "UniswapV2" ELSE "UniswapV3"

\* NewBlock events: number, timestamp, base fee.
Blocks ==
    [number : 1..MaxBlock, timestamp : 1..MaxStamp, base_fee : 1..MaxFee]

\* Pending transactions: a hash and the declared inclusion bound.
Transactions == [hash : 1..MaxHash, max_block : 1..(MaxBlock + 2)]

NoBlock == [number |-> 0, timestamp |-> 0, base_fee |-> 0]
NoTx == [hash |-> 0, max_block |-> 0]
NoEvent == [type |-> "None", block |-> NoBlock, tx |-> NoTx]

NewBlockEvent(b) == [type |-> "NewBlock", block |-> b, tx |-> NoTx]
NewTransactionEvent(t) == [type |-> "NewTransaction", block |-> NoBlock, tx |-> t]

\* BlockManager::new(): no head yet.
BlockManager_new == NoBlock

\* BlockManager::update_block_info: replaces the tracked head, all fields
\* together.
update_block_info(bm, event) ==
    [number |-> event.number, timestamp |-> event.timestamp,
     base_fee |-> event.base_fee]

\* BlockManager::get_next_block: the next-block constraints, a pure function
\* of the tracked head.
get_next_block(bm) ==
    [number |-> bm.number + 1, timestamp |-> bm.timestamp,
     base_fee |-> bm.base_fee]

\* VictimInfo::new(tx, next_block)
VictimInfo_new(tx, next_block) ==
    [tx |-> tx, target_block |-> next_block, state_diffs |-> {},
     filled |-> FALSE]

NoVictim == VictimInfo_new(NoTx, NoBlock)

\* VictimInfo::can_include_in_target_block: the transaction's declared bound
\* against chain_head + 1.
can_include_in_target_block(v) == v.tx.max_block >= v.target_block.number

\* What the awaited fill_state_diffs call can come back with: an error, or
\* the set of addresses the simulated transaction touches.
FillResults ==
    {[ok |-> FALSE, diffs |-> {}]}
        \cup {[ok |-> TRUE, diffs |-> d] : d \in SUBSET Pools}

Orderings(S) ==
    {s \in [1..Cardinality(S) -> S] :
        \A i, j \in 1..Cardinality(S) : s[i] = s[j] => i = j}

\* What the awaited PoolManager::get_touched_sandwichable_pools call can come
\* back with: an error, or the registered pools the state diff touches (a
\* Vec, in whatever order the registry yields them).
TouchedResults(pm, v) ==
    {[ok |-> FALSE, pools |-> <<>>]}
        \cup {[ok |-> TRUE, pools |-> s] : s \in Orderings(pm \cap v.state_diffs)}

Call(stage, result) == [stage |-> stage, result |-> result, pool |-> 0]
Rec(level, msg) == [level |-> level, msg |-> msg]

---------------------------------------------------------------------------
(* Construction and setup. *)

Init ==
    /\ synced = "new"
    /\ sync_calls = <<>>
    /\ pool_manager = {}
    /\ block_manager = BlockManager_new
    /\ halted = FALSE
    /\ pc = "idle"
    /\ cur = NoEvent
    /\ pre = [block_manager |-> BlockManager_new, pool_manager |-> {}]
    /\ victim_info = NoVictim
    /\ touched_pools = <<>>
    /\ calls = <<>>
    /\ log = <<>>
    /\ ret = "NoCall"
    /\ last_update = [block |-> NoBlock, src |-> "none", increasing |-> TRUE]

\* What sync_all_pools and setup can come back with.
SyncPoolsResults ==
    {[ok |-> FALSE, pools |-> {}]}
        \cup {[ok |-> TRUE, pools |-> r] : r \in SUBSET Pools}
SetupResults ==
    {[ok |-> FALSE, head |-> NoBlock]}
        \cup {[ok |-> TRUE, head |-> b] : b \in Blocks}

SyncCall(call, ok) == [call |-> call, ok |-> ok]

\* sync_state with the `?` after setup left out: a failed setup is ignored
\* and Ok(()) is returned.
sync_state_SetupUnchecked(pools_res, setup_res) ==
    /\ synced = "new"
    /\ IF ~pools_res.ok
       THEN /\ synced' = "failed"
            /\ sync_calls' = <<SyncCall("sync_all_pools", FALSE)>>
            /\ UNCHANGED <<pool_manager, block_manager, last_update>>
       ELSE /\ pool_manager' = pools_res.pools
            /\ sync_calls' = <<SyncCall("sync_all_pools", TRUE),
                               SyncCall("setup", setup_res.ok)>>
            /\ synced' = "ok"
            /\ IF ~setup_res.ok
               THEN UNCHANGED <<block_manager, last_update>>
               ELSE /\ block_manager' = update_block_info(block_manager, setup_res.head)
                    /\ last_update' = [block |-> setup_res.head, src |-> "setup",
                                        increasing |-> TRUE]
    /\ UNCHANGED <<halted, pc, cur, pre, victim_info, touched_pools, calls,
                   log, ret>>

\* sync_state: sync_all_pools()?, then block_manager.setup()?, then Ok(()).
sync_state(pools_res, setup_res) ==
    /\ synced = "new"
    /\ IF ~pools_res.ok
       THEN /\ synced' = "failed"
            /\ sync_calls' = <<SyncCall("sync_all_pools", FALSE)>>
            /\ UNCHANGED <<pool_manager, block_manager, last_update>>
       ELSE /\ pool_manager' = pools_res.pools
            /\ IF ~setup_res.ok
               THEN /\ synced' = "failed"
                    /\ sync_calls' = <<SyncCall("sync_all_pools", TRUE),
                                       SyncCall("setup", FALSE)>>
                    /\ UNCHANGED <<block_manager, last_update>>
               ELSE /\ synced' = "ok"
                    /\ sync_calls' = <<SyncCall("sync_all_pools", TRUE),
                                       SyncCall("setup", TRUE)>>
                    /\ block_manager' = update_block_info(block_manager, setup_res.head)
                    /\ last_update' = [block |-> setup_res.head, src |-> "setup",
                                        increasing |-> TRUE]
    /\ UNCHANGED <<halted, pc, cur, pre, victim_info, touched_pools, calls,
                   log, ret>>

\* An event is handed to process_event only after sync_state succeeded, only
\* while no earlier process_event call is pending, and never after a panic.
Accepting == synced = "ok" /\ pc = "idle" /\ ~halted

Snapshot == [block_manager |-> block_manager, pool_manager |-> pool_manager]

---------------------------------------------------------------------------
(* Block events. *)

\* process_new_block with the update_block_info call left out.
process_new_block_NoUpdate(bm, event) ==
    [result |-> "Ok",
     block_manager |-> bm,
     log |-> <<Rec("info", "new_block")>>]

\* process_new_block refusing, with an error, a block whose number is not
\* greater than the head's.
process_new_block_StaleIsError(bm, event) ==
    IF event.number > bm.number
    THEN [result |-> "Ok",
          block_manager |-> update_block_info(bm, event),
          log |-> <<Rec("info", "new_block")>>]
    ELSE [result |-> "Err",
          block_manager |-> bm,
          log |-> <<Rec("info", "new_block")>>]

\* process_new_block: log the block, update the block manager, Ok(()).
process_new_block(bm, event) ==
    [result |-> "Ok",
     block_manager |-> update_block_info(bm, event),
     log |-> <<Rec("info", "new_block")>>]

\* process_event's NewBlock arm entered while an earlier process_event call
\* is still waiting on a collaborator.
process_event_NewBlock_Concurrent(block) ==
    /\ synced = "ok" /\ ~halted
    /\ cur' = NewBlockEvent(block)
    /\ pre' = Snapshot
    /\ victim_info' = NoVictim
    /\ touched_pools' = <<>>
    /\ calls' = <<>>
    /\ LET r == process_new_block(block_manager, block) IN
         /\ block_manager' = r.block_manager
         /\ last_update' =
                [block |-> block, src |-> "event",
                 increasing |-> last_update.increasing
                                  /\ block.number > block_manager.number]
         /\ log' = r.log
         /\ IF r.result = "Ok"
            THEN ret' = "None" /\ halted' = FALSE
            ELSE ret' = "Panic" /\ halted' = TRUE
    /\ pc' = "idle"
    /\ UNCHANGED <<synced, sync_calls, pool_manager>>

\* process_event, Event::NewBlock arm.
process_event_NewBlock(block) ==
    /\ Accepting
    /\ cur' = NewBlockEvent(block)
    /\ pre' = Snapshot
    /\ victim_info' = NoVictim
    /\ touched_pools' = <<>>
    /\ calls' = <<>>
    /\ LET r == process_new_block(block_manager, block) IN
         /\ block_manager' = r.block_manager
         /\ last_update' =
                [block |-> block, src |-> "event",
                 increasing |-> last_update.increasing
                                  /\ block.number > block_manager.number]
         /\ log' = r.log
         /\ IF r.result = "Ok"
            THEN ret' = "None" /\ halted' = FALSE
            ELSE ret' = "Panic" /\ halted' = TRUE
    /\ UNCHANGED <<synced, sync_calls, pool_manager, pc>>

---------------------------------------------------------------------------
(* Transaction events: process_new_tx. *)

\* process_new_tx entry with the early return of the inclusion check left
\* out: the state diffs are requested whatever the check says.
process_new_tx_begin_NoReject(tx) ==
    /\ Accepting
    /\ cur' = NewTransactionEvent(tx)
    /\ pre' = Snapshot
    /\ LET next_block == get_next_block(block_manager)
           v == VictimInfo_new(tx, next_block) IN
         /\ victim_info' = v
         /\ touched_pools' = <<>>
         /\ calls' = <<Call("can_include_in_target_block",
                            IF can_include_in_target_block(v) THEN "pass" ELSE "fail"),
                       Call("fill_state_diffs", "pending")>>
         /\ log' = <<>>
         /\ ret' = "Pending"
         /\ pc' = "fill_state_diffs"
    /\ UNCHANGED <<synced, sync_calls, pool_manager, block_manager, halted,
                   last_update>>

\* process_new_tx entry checking against constraints cached when the previous
\* event was accepted, not read from the block manager now.
process_new_tx_begin_Stale(tx) ==
    /\ Accepting
    /\ cur' = NewTransactionEvent(tx)
    /\ pre' = Snapshot
    /\ LET next_block == get_next_block(pre.block_manager)
           v == VictimInfo_new(tx, next_block) IN
         /\ victim_info' = v
         /\ touched_pools' = <<>>
         /\ IF ~can_include_in_target_block(v)
            THEN /\ calls' = <<Call("can_include_in_target_block", "fail")>>
                 /\ log' = <<Rec("info", "mf<nbf")>>
                 /\ ret' = "None"
                 /\ pc' = "idle"
            ELSE /\ calls' = <<Call("can_include_in_target_block", "pass"),
                               Call("fill_state_diffs", "pending")>>
                 /\ log' = <<>>
                 /\ ret' = "Pending"
                 /\ pc' = "fill_state_diffs"
    /\ UNCHANGED <<synced, sync_calls, pool_manager, block_manager, halted,
                   last_update>>

\* process_new_tx entry that stores the constraints it read back into the
\* block manager, moving the tracked head to the target block.
process_new_tx_begin_AdvancesHead(tx) ==
    /\ Accepting
    /\ cur' = NewTransactionEvent(tx)
    /\ pre' = Snapshot
    /\ LET next_block == get_next_block(block_manager)
           v == VictimInfo_new(tx, next_block) IN
         /\ victim_info' = v
         /\ touched_pools' = <<>>
         /\ block_manager' = next_block
         /\ IF ~can_include_in_target_block(v)
            THEN /\ calls' = <<Call("can_include_in_target_block", "fail")>>
                 /\ log' = <<Rec("info", "mf<nbf")>>
                 /\ ret' = "None"
                 /\ pc' = "idle"
            ELSE /\ calls' = <<Call("can_include_in_target_block", "pass"),
                               Call("fill_state_diffs", "pending")>>
                 /\ log' = <<>>
                 /\ ret' = "Pending"
                 /\ pc' = "fill_state_diffs"
    /\ UNCHANGED <<synced, sync_calls, pool_manager, halted, last_update>>

\* Entry up to the first await: read the next-block constraints, build the
\* VictimInfo, reject what cannot land in the next block, else call
\* fill_state_diffs.
process_new_tx_begin(tx) ==
    /\ Accepting
    /\ cur' = NewTransactionEvent(tx)
    /\ pre' = Snapshot
    /\ LET next_block == get_next_block(block_manager)
           v == VictimInfo_new(tx, next_block) IN
         /\ victim_info' = v
         /\ touched_pools' = <<>>
         /\ IF ~can_include_in_target_block(v)
            THEN /\ calls' = <<Call("can_include_in_target_block", "fail")>>
                 /\ log' = <<Rec("info", "mf<nbf")>>
                 /\ ret' = "None"
                 /\ pc' = "idle"
            ELSE /\ calls' = <<Call("can_include_in_target_block", "pass"),
                               Call("fill_state_diffs", "pending")>>
                 /\ log' = <<>>
                 /\ ret' = "Pending"
                 /\ pc' = "fill_state_diffs"
    /\ UNCHANGED <<synced, sync_calls, pool_manager, block_manager, halted,
                   last_update>>

SetLast(s, result) == [s EXCEPT ![Len(s)].result = result]

\* fill_state_diffs_return with the `.ok()?` left out: an error is logged and
\* the pool lookup is made all the same.
fill_state_diffs_return_NoBail(res) ==
    /\ pc = "fill_state_diffs"
    /\ victim_info' =
           [victim_info EXCEPT !.state_diffs = res.diffs, !.filled = res.ok]
    /\ calls' = Append(SetLast(calls, IF res.ok THEN "pass" ELSE "fail"),
                       Call("get_touched_sandwichable_pools", "pending"))
    /\ log' = IF res.ok THEN log
              ELSE Append(log, Rec("error", "Failed to get state diffs"))
    /\ pc' = "get_touched_sandwichable_pools"
    /\ UNCHANGED <<synced, sync_calls, pool_manager, block_manager, halted,
                   cur, pre, touched_pools, ret, last_update>>

\* fill_state_diffs_return with the error unwrapped: a failed simulation
\* panics.
fill_state_diffs_return_Unwrap(res) ==
    /\ pc = "fill_state_diffs"
    /\ IF ~res.ok
       THEN /\ calls' = SetLast(calls, "fail")
            /\ log' = log
            /\ ret' = "Panic"
            /\ halted' = TRUE
            /\ pc' = "idle"
            /\ UNCHANGED victim_info
       ELSE /\ victim_info' =
                [victim_info EXCEPT !.state_diffs = res.diffs, !.filled = TRUE]
            /\ calls' = Append(SetLast(calls, "pass"),
                               Call("get_touched_sandwichable_pools", "pending"))
            /\ pc' = "get_touched_sandwichable_pools"
            /\ UNCHANGED <<log, ret, halted>>
    /\ UNCHANGED <<synced, sync_calls, pool_manager, block_manager,
                   cur, pre, touched_pools, last_update>>

\* fill_state_diffs_return calling fill_state_diffs again after an error,
\* until it succeeds.
fill_state_diffs_return_Retry(res) ==
    /\ pc = "fill_state_diffs"
    /\ IF ~res.ok
       THEN /\ calls' = Append(SetLast(calls, "fail"),
                               Call("fill_state_diffs", "pending"))
            /\ log' = Append(log, Rec("error", "Failed to get state diffs"))
            /\ UNCHANGED <<victim_info, ret, pc>>
       ELSE /\ victim_info' =
                [victim_info EXCEPT !.state_diffs = res.diffs, !.filled = TRUE]
            /\ calls' = Append(SetLast(calls, "pass"),
                               Call("get_touched_sandwichable_pools", "pending"))
            /\ pc' = "get_touched_sandwichable_pools"
            /\ UNCHANGED <<log, ret>>
    /\ UNCHANGED <<synced, sync_calls, pool_manager, block_manager, halted,
                   cur, pre, touched_pools, last_update>>

\* fill_state_diffs_return without the map_err: the error is dropped
\* unlogged.
fill_state_diffs_return_Silent(res) ==
    /\ pc = "fill_state_diffs"
    /\ IF ~res.ok
       THEN /\ calls' = SetLast(calls, "fail")
            /\ log' = log
            /\ ret' = "None"
            /\ pc' = "idle"
            /\ UNCHANGED victim_info
       ELSE /\ victim_info' =
                [victim_info EXCEPT !.state_diffs = res.diffs, !.filled = TRUE]
            /\ calls' = Append(SetLast(calls, "pass"),
                               Call("get_touched_sandwichable_pools", "pending"))
            /\ pc' = "get_touched_sandwichable_pools"
            /\ UNCHANGED <<log, ret>>
    /\ UNCHANGED <<synced, sync_calls, pool_manager, block_manager, halted,
                   cur, pre, touched_pools, last_update>>

\* fill_state_diffs_return waiting again after an error without counting a
\* new call: the wait for the state diffs is resumed until it succeeds.
fill_state_diffs_return_WaitAgain(res) ==
    /\ pc = "fill_state_diffs"
    /\ IF ~res.ok
       THEN /\ calls' = SetLast(calls, IF calls[Len(calls)].result = "pending"
                                       THEN "again" ELSE "pending")
            /\ UNCHANGED <<victim_info, log, ret, pc>>
       ELSE /\ victim_info' =
                [victim_info EXCEPT !.state_diffs = res.diffs, !.filled = TRUE]
            /\ calls' = Append(SetLast(calls, "pass"),
                               Call("get_touched_sandwichable_pools", "pending"))
            /\ pc' = "get_touched_sandwichable_pools"
            /\ UNCHANGED <<log, ret>>
    /\ UNCHANGED <<synced, sync_calls, pool_manager, block_manager, halted,
                   cur, pre, touched_pools, last_update>>

\* fill_state_diffs comes back: on an error log it and return None, else
\* call get_touched_sandwichable_pools.
fill_state_diffs_return(res) ==
    /\ pc = "fill_state_diffs"
    /\ IF ~res.ok
       THEN /\ calls' = SetLast(calls, "fail")
            /\ log' = Append(log, Rec("error", "Failed to get state diffs"))
            /\ ret' = "None"
            /\ pc' = "idle"
            /\ UNCHANGED victim_info
       ELSE /\ victim_info' =
                [victim_info EXCEPT !.state_diffs = res.diffs, !.filled = TRUE]
            /\ calls' = Append(SetLast(calls, "pass"),
                               Call("get_touched_sandwichable_pools", "pending"))
            /\ pc' = "get_touched_sandwichable_pools"
            /\ UNCHANGED <<log, ret>>
    /\ UNCHANGED <<synced, sync_calls, pool_manager, block_manager, halted,
                   cur, pre, touched_pools, last_update>>

\* The match with its UniswapV3 arm routed to the UniswapV2 arm.
classify_pool_AllV2(pool) ==
    [call |-> [stage |-> "UniswapV2", result |-> "pass", pool |-> pool],
     out |-> Rec("stdout", "v2Pool")]

\* One iteration of `for pool in touched_pools`: the match on the variant.
classify_pool(pool) ==
    IF Variant(pool) = "UniswapV2"
    THEN [call |-> [stage |-> "UniswapV2", result |-> "pass", pool |-> pool],
          out |-> Rec("stdout", "v2Pool")]
    ELSE [call |-> [stage |-> "UniswapV3", result |-> "pass", pool |-> pool],
          out |-> Rec("stdout", "v3Pool")]

\* The whole loop over the touched pools, in the Vec's order.
classify_loop(pools) ==
    [i \in 1..Len(pools) |-> classify_pool(pools[i])]

\* get_touched_pools_return with the error unwrapped: a failed lookup panics.
get_touched_pools_return_Unwrap(res) ==
    /\ pc = "get_touched_sandwichable_pools"
    /\ IF ~res.ok
       THEN /\ calls' = SetLast(calls, "fail")
            /\ log' = log
            /\ ret' = "Panic"
            /\ halted' = TRUE
       ELSE IF res.pools = <<>>
       THEN /\ calls' = Append(SetLast(calls, "pass"), Call("is_empty", "fail"))
            /\ log' = Append(log, Rec("info", "hash"))
            /\ ret' = "None"
            /\ halted' = halted
       ELSE LET done == classify_loop(res.pools) IN
            /\ calls' = Append(SetLast(calls, "pass"), Call("is_empty", "pass"))
                          \o [i \in 1..Len(done) |-> done[i].call]
            /\ log' = log \o [i \in 1..Len(done) |-> done[i].out]
            /\ ret' = "None"
            /\ halted' = halted
    /\ touched_pools' = (IF res.ok THEN res.pools ELSE touched_pools)
    /\ pc' = "idle"
    /\ UNCHANGED <<synced, sync_calls, pool_manager, block_manager,
                   cur, pre, victim_info, last_update>>

\* get_touched_pools_return without the emptiness check, and with the
\* function's tail handing an action to the executor.
get_touched_pools_return_NoEmptyCheck(res) ==
    /\ pc = "get_touched_sandwichable_pools"
    /\ IF ~res.ok
       THEN /\ calls' = SetLast(calls, "fail")
            /\ log' = Append(log,
                   Rec("error", "Failed to get touched sandwichable pools"))
            /\ ret' = "None"
       ELSE LET done == classify_loop(res.pools) IN
            /\ calls' = SetLast(calls, "pass")
                          \o [i \in 1..Len(done) |-> done[i].call]
            /\ log' = log \o [i \in 1..Len(done) |-> done[i].out]
            /\ ret' = "Action"
    /\ touched_pools' = (IF res.ok THEN res.pools ELSE touched_pools)
    /\ pc' = "idle"
    /\ UNCHANGED <<synced, sync_calls, pool_manager, block_manager, halted,
                   cur, pre, victim_info, last_update>>

\* get_touched_pools_return with the function's tail handing an action to
\* the executor once the loop has run.
get_touched_pools_return_ReturnsAction(res) ==
    /\ pc = "get_touched_sandwichable_pools"
    /\ IF ~res.ok
       THEN /\ calls' = SetLast(calls, "fail")
            /\ log' = Append(log,
                   Rec("error", "Failed to get touched sandwichable pools"))
            /\ ret' = "None"
       ELSE IF res.pools = <<>>
       THEN /\ calls' = Append(SetLast(calls, "pass"), Call("is_empty", "fail"))
            /\ log' = Append(log, Rec("info", "hash"))
            /\ ret' = "None"
       ELSE LET done == classify_loop(res.pools) IN
            /\ calls' = Append(SetLast(calls, "pass"), Call("is_empty", "pass"))
                          \o [i \in 1..Len(done) |-> done[i].call]
            /\ log' = log \o [i \in 1..Len(done) |-> done[i].out]
            /\ ret' = "Action"
    /\ touched_pools' = (IF res.ok THEN res.pools ELSE touched_pools)
    /\ pc' = "idle"
    /\ UNCHANGED <<synced, sync_calls, pool_manager, block_manager, halted,
                   cur, pre, victim_info, last_update>>

\* get_touched_sandwichable_pools comes back: on an error log it and return
\* None; on an empty Vec log the hash and return None; else run the loop and
\* return None.
get_touched_pools_return(res) ==
    /\ pc = "get_touched_sandwichable_pools"
    /\ IF ~res.ok
       THEN /\ calls' = SetLast(calls, "fail")
            /\ log' = Append(log,
                   Rec("error", "Failed to get touched sandwichable pools"))
       ELSE IF res.pools = <<>>
       THEN /\ calls' = Append(SetLast(calls, "pass"), Call("is_empty", "fail"))
            /\ log' = Append(log, Rec("info", "hash"))
       ELSE LET done == classify_loop(res.pools) IN
            /\ calls' = Append(SetLast(calls, "pass"), Call("is_empty", "pass"))
                          \o [i \in 1..Len(done) |-> done[i].call]
            /\ log' = log \o [i \in 1..Len(done) |-> done[i].out]
    /\ ret' = "None"
    /\ touched_pools' = (IF res.ok THEN res.pools ELSE touched_pools)
    /\ pc' = "idle"
    /\ UNCHANGED <<synced, sync_calls, pool_manager, block_manager, halted,
                   cur, pre, victim_info, last_update>>

---------------------------------------------------------------------------

Next ==
    \/ \E p \in SyncPoolsResults, s \in SetupResults : sync_state(p, s)
    \/ \E b \in Blocks : process_event_NewBlock(b)
    \/ \E t \in Transactions : process_new_tx_begin(t)
    \/ \E r \in FillResults : fill_state_diffs_return(r)
    \/ \E r \in TouchedResults(pool_manager, victim_info) :
           get_touched_pools_return(r)

Spec == Init /\ [][Next]_vars

\* Each awaited collaborator call comes back, with a result or an error.
FairSpec ==
    /\ Spec
    /\ WF_vars(\E r \in FillResults : fill_state_diffs_return(r))
    /\ WF_vars(\E r \in TouchedResults(pool_manager, victim_info) :
                   get_touched_pools_return(r))

---------------------------------------------------------------------------
(* Vocabulary of the properties. *)

TxEvent == cur.type = "NewTransaction"
BlockEvent == cur.type = "NewBlock"
Returned == pc = "idle"

Invoked(stage) == \E i \in 1..Len(calls) : calls[i].stage = stage
ResultOf(stage) ==
    IF Invoked(stage)
    THEN calls[CHOOSE i \in 1..Len(calls) : calls[i].stage = stage].result
    ELSE "none"
Classifications ==
    {i \in 1..Len(calls) : calls[i].stage \in {"UniswapV2", "UniswapV3"}}
NoSimulation == ~Invoked("fill_state_diffs")
NoLookup == ~Invoked("get_touched_sandwichable_pools")
NoClassification ==
    /\ Classifications = {}
    /\ \A i \in 1..Len(log) : log[i].level # "stdout"

\* The candidate the current transaction event was checked as, rebuilt from
\* the event and the head at the moment the event was accepted.
Candidate == VictimInfo_new(cur.tx, get_next_block(pre.block_manager))

StageNo(stage) ==
    CASE stage = "can_include_in_target_block" -> 1
      [] stage = "fill_state_diffs" -> 2
      [] stage = "get_touched_sandwichable_pools" -> 3
      [] stage = "is_empty" -> 4
      [] OTHER -> 5

\* The registered pools the current candidate's state diff touches.
Touched == pool_manager \cap victim_info.state_diffs

\* The pools in the Vec the lookup returned.
TouchedSet == {touched_pools[i] : i \in 1..Len(touched_pools)}

---------------------------------------------------------------------------
(* C1..C10 *)

\* C1: a transaction event whose candidate fails
\* can_include_in_target_block against the next-block constraints of the
\* current head returns no action at once: the state-diff simulation, the
\* pool lookup and the classification are not invoked during that event.
C1_RejectedBeforeSimulation ==
    (TxEvent /\ ~can_include_in_target_block(Candidate))
        => /\ Returned
           /\ ret = "None"
           /\ NoSimulation
           /\ NoLookup
           /\ NoClassification

C1_Witness ==
    /\ TxEvent
    /\ ~can_include_in_target_block(Candidate)
    /\ Returned
    /\ last_update.src = "event"

\* C2: within one transaction event the stages run in the order inclusion
\* check, state diffs, pool lookup, emptiness check, classification; a stage
\* is entered only if every earlier stage passed, the pipeline returns no
\* action at the first stage that disqualifies, and an action is returned
\* only with all five stages passed.
C2_StagesInOrder ==
    TxEvent =>
        /\ Len(calls) >= 1
        /\ \A i \in 1..Len(calls) :
              /\ StageNo(calls[i].stage) = (IF i <= 4 THEN i ELSE 5)
              /\ i > 1 => calls[i - 1].result = "pass"
              /\ calls[i].result = "fail"
                    => i = Len(calls) /\ Returned /\ ret = "None"
              /\ calls[i].result = "pending" => i = Len(calls) /\ ~Returned
        /\ ret = "Action"
              => /\ Classifications # {}
                 /\ \A i \in 1..Len(calls) : calls[i].result = "pass"

C2_Witness ==
    /\ TxEvent
    /\ Returned
    /\ Len(calls) = 6
    /\ calls[5].stage = "UniswapV2"
    /\ calls[6].stage = "UniswapV3"

\* C3: when fill_state_diffs fails, process_event returns no action, the
\* pool lookup and the classification are not invoked, the strategy has not
\* halted, and the head and the registry the next event meets are those the
\* failed transaction met: the next event is accepted and processed as if the
\* transaction had never arrived.
C3_StateDiffFailureIsSoft ==
    (TxEvent /\ ResultOf("fill_state_diffs") = "fail")
        => /\ Returned
           /\ ret = "None"
           /\ NoLookup
           /\ NoClassification
           /\ ~halted
           /\ Accepting
           /\ Snapshot = pre

C3_Witness ==
    /\ TxEvent
    /\ ResultOf("fill_state_diffs") = "fail"
    /\ Returned
    /\ block_manager.number = MaxBlock

\* C4: when get_touched_sandwichable_pools fails, the outcome is the same
\* soft failure: process_event returns no action, no classification is
\* invoked, the strategy has not halted, and the next event is accepted
\* against the unchanged head and registry.
C4_LookupFailureIsSoft ==
    (TxEvent /\ ResultOf("get_touched_sandwichable_pools") = "fail")
        => /\ Returned
           /\ ret = "None"
           /\ NoClassification
           /\ ~Invoked("is_empty")
           /\ ~halted
           /\ Accepting
           /\ Snapshot = pre

C4_Witness ==
    /\ TxEvent
    /\ ResultOf("get_touched_sandwichable_pools") = "fail"
    /\ Returned
    /\ Touched # {}

\* C5: a transaction event that passes the inclusion check and whose state
\* diff and pool lookup both succeed with an empty touched-pool Vec returns
\* no action, and neither classification branch is executed.
C5_NoTouchedPoolNoClassification ==
    (/\ TxEvent
     /\ can_include_in_target_block(Candidate)
     /\ ResultOf("fill_state_diffs") = "pass"
     /\ ResultOf("get_touched_sandwichable_pools") = "pass"
     /\ touched_pools = <<>>)
        => /\ Returned
           /\ ret = "None"
           /\ NoClassification

C5_Witness ==
    /\ TxEvent
    /\ ResultOf("get_touched_sandwichable_pools") = "pass"
    /\ touched_pools = <<>>
    /\ victim_info.state_diffs # {}
    /\ pool_manager # {}
    /\ Returned

\* C6: in a transaction event that reaches the classification, every pool
\* of the touched-pool Vec is dispatched exactly once, to the branch of its
\* own variant, and nothing else is dispatched.
C6_EachTouchedPoolClassifiedOnce ==
    (TxEvent /\ ResultOf("is_empty") = "pass")
        => /\ Returned
           /\ TouchedSet # {}
           /\ \A p \in TouchedSet :
                 /\ Cardinality({i \in Classifications : calls[i].pool = p}) = 1
                 /\ \A i \in Classifications :
                       calls[i].pool = p => calls[i].stage = Variant(p)
           /\ \A i \in Classifications : calls[i].pool \in TouchedSet
           /\ Cardinality({i \in 1..Len(log) : log[i] = Rec("stdout", "v2Pool")})
                 = Cardinality({p \in TouchedSet : Variant(p) = "UniswapV2"})
           /\ Cardinality({i \in 1..Len(log) : log[i] = Rec("stdout", "v3Pool")})
                 = Cardinality({p \in TouchedSet : Variant(p) = "UniswapV3"})

C6_Witness ==
    /\ TxEvent
    /\ ResultOf("is_empty") = "pass"
    /\ Returned
    /\ \E p, q \in TouchedSet :
          Variant(p) = "UniswapV2" /\ Variant(q) = "UniswapV3"
    /\ Len(touched_pools) = NumPools

\* C7: a block event has made its block the tracked head (number, timestamp
\* and base fee) by the time process_event returns, returns no action, and
\* invokes neither the simulation, the pool lookup nor the classification.
C7_BlockEventUpdatesHead ==
    BlockEvent
        => /\ Returned
           /\ ret = "None"
           /\ block_manager.number = cur.block.number
           /\ block_manager.timestamp = cur.block.timestamp
           /\ block_manager.base_fee = cur.block.base_fee
           /\ calls = <<>>
           /\ NoClassification

C7_Witness ==
    /\ BlockEvent
    /\ Returned
    /\ block_manager # pre.block_manager
    /\ block_manager.number > pre.block_manager.number

\* C8: every block installed as the tracked head has a number strictly
\* greater than that of the head it replaces; a block event whose number is
\* not greater is rejected (the head stays) or is fatal (the strategy halts).
C8_HeadStrictlyIncreasing ==
    BlockEvent
        => \/ block_manager.number > pre.block_manager.number
           \/ block_manager = pre.block_manager
           \/ halted

\* C9: while block numbers are strictly increasing, the constraints a
\* transaction event is checked against are those of the most recent block
\* event before it (of setup's head if there was none), and the candidate
\* carries that one snapshot through the whole pipeline pass.
C9_ConstraintsFromLatestBlock ==
    (TxEvent /\ last_update.increasing)
        => /\ victim_info.target_block.number = last_update.block.number + 1
           /\ victim_info.target_block
                 = get_next_block(update_block_info(BlockManager_new,
                                                    last_update.block))
           /\ victim_info.target_block = get_next_block(block_manager)

C9_Witness ==
    /\ TxEvent
    /\ last_update.increasing
    /\ last_update.src = "event"
    /\ last_update.block.number = MaxBlock
    /\ pc = "get_touched_sandwichable_pools"

---------------------------------------------------------------------------
(* C11..C18 *)

\* C11: sync_state reports success only with sync_all_pools and then the
\* tracker setup both called and both successful, in that order; a failed
\* sync_all_pools makes it return the error with setup never called, a failed
\* setup makes it return the error; it never reports success with a failed
\* call behind it.
C11_SyncAllOrNothing ==
    /\ synced = "new" => sync_calls = <<>>
    /\ synced = "ok"
          => sync_calls = <<SyncCall("sync_all_pools", TRUE),
                            SyncCall("setup", TRUE)>>
    /\ synced = "failed"
          => \/ sync_calls = <<SyncCall("sync_all_pools", FALSE)>>
             \/ sync_calls = <<SyncCall("sync_all_pools", TRUE),
                               SyncCall("setup", FALSE)>>
    /\ (\E i \in 1..Len(sync_calls) : ~sync_calls[i].ok)
          => synced = "failed" /\ cur = NoEvent

C11_Witness ==
    /\ synced = "failed"
    /\ Len(sync_calls) = 2
    /\ ~sync_calls[2].ok
    /\ pool_manager # {}

\* C12: every step of a transaction event, whatever its outcome, leaves the
\* tracked head and the pool registry as they were; after setup the head
\* changes only in the handling of a block event, and the registry not at
\* all.
C12_TxLeavesHeadAndRegistry ==
    [][/\ cur'.type = "NewTransaction"
          => block_manager' = block_manager /\ pool_manager' = pool_manager
       /\ (synced = "ok" /\ block_manager' # block_manager)
          => pc = "idle" /\ cur'.type = "NewBlock"
       /\ synced = "ok" => pool_manager' = pool_manager]_vars

C12_Witness ==
    /\ TxEvent
    /\ Returned
    /\ Classifications # {}
    /\ Snapshot = pre
    /\ last_update.src = "event"

CountOf(stage) == Cardinality({i \in 1..Len(calls) : calls[i].stage = stage})
HasLevel(level) == \E i \in 1..Len(log) : log[i].level = level

\* C13: events are handled one at a time: while a transaction's pipeline
\* waits on the state-diff simulation or on the pool lookup no other event
\* is accepted, so the head and the constraints the candidate was checked
\* against stay as they were from the inclusion check to the return.
C13_NoEventWhilePending ==
    [][pc # "idle"
          => /\ cur' = cur
             /\ cur.type = "NewTransaction"
             /\ block_manager' = block_manager
             /\ pool_manager' = pool_manager
             /\ victim_info'.target_block = get_next_block(block_manager')
             /\ victim_info'.tx = cur.tx]_vars

C13_Witness ==
    /\ pc = "get_touched_sandwichable_pools"
    /\ TxEvent
    /\ last_update.src = "event"
    /\ victim_info.target_block = get_next_block(block_manager)

\* C14: during one transaction event the state-diff simulation is invoked
\* at most once and the pool lookup at most once, on every path; a call that
\* failed is the last thing the event invoked, and the event has returned.
C14_ExternalCallsAtMostOnce ==
    TxEvent
        => /\ CountOf("fill_state_diffs") <= 1
           /\ CountOf("get_touched_sandwichable_pools") <= 1
           /\ \A i \in 1..Len(calls) :
                 (/\ calls[i].stage \in {"fill_state_diffs",
                                         "get_touched_sandwichable_pools"}
                  /\ calls[i].result = "fail")
                    => i = Len(calls) /\ Returned

C14_Witness ==
    /\ TxEvent
    /\ Returned
    /\ CountOf("fill_state_diffs") = 1
    /\ CountOf("get_touched_sandwichable_pools") = 1
    /\ ResultOf("get_touched_sandwichable_pools") = "fail"

\* C15: the records of a transaction event tell its outcome class: a
\* candidate unreachable in the target block, or one touching no tracked
\* pool, emits an info record and no error record; a failed state-diff call
\* or a failed pool lookup emits an error record.  So a failed state-diff
\* call and a successful one touching no tracked pool never log the same.
C15_LogTellsOutcome ==
    (TxEvent /\ Returned)
        => /\ ResultOf("can_include_in_target_block") = "fail"
                 => HasLevel("info") /\ ~HasLevel("error")
           /\ ResultOf("is_empty") = "fail"
                 => HasLevel("info") /\ ~HasLevel("error")
           /\ ResultOf("fill_state_diffs") = "fail" => HasLevel("error")
           /\ ResultOf("get_touched_sandwichable_pools") = "fail"
                 => HasLevel("error")

C15_Witness ==
    /\ TxEvent
    /\ Returned
    /\ ResultOf("fill_state_diffs") = "fail"
    /\ log = <<Rec("error", "Failed to get state diffs")>>

\* C16: with every awaited collaborator call coming back, a transaction
\* event that has entered the pipeline reaches a return of process_event.
C16_TxEventReturns ==
    (pc # "idle") ~> (pc = "idle" /\ TxEvent /\ ret = "None")

C16_Witness ==
    /\ TxEvent
    /\ Returned
    /\ ret = "None"
    /\ Len(calls) = 4 + NumPools

\* C17: process_event returns no action for any event, also for a
\* transaction event that passes all five stages with a tracked pool
\* touched: the loop prints each pool's variant and None is returned.
C17_NeverAnAction ==
    /\ ret \in {"NoCall", "Pending", "None"}
    /\ (Returned /\ cur.type # "None") => ret = "None"
    /\ (TxEvent /\ Classifications # {})
          => /\ Returned
             /\ log = [i \in 1..Len(touched_pools) |->
                         Rec("stdout",
                             IF Variant(touched_pools[i]) = "UniswapV2"
                             THEN "v2Pool" ELSE "v3Pool")]

C17_Witness ==
    /\ TxEvent
    /\ Returned
    /\ ResultOf("is_empty") = "pass"
    /\ Len(touched_pools) >= 1
    /\ ret = "None"

\* C18: process_new_block succeeds for every block event, whatever its
\* number against the current head's, so process_event never panics and the
\* halted state is never entered.
C18_NeverHalted ==
    /\ ~halted
    /\ ret # "Panic"
    /\ BlockEvent => ret = "None" /\ Returned

C18_Witness ==
    /\ BlockEvent
    /\ cur.block.number < pre.block_manager.number
    /\ ~halted
    /\ ret = "None"

====
